---- MODULE Spec2Model ----
(***************************************************************************)
(* CityBike bike-sharing analytics: the cleaning pipeline of               *)
(* BikeShareSystem (analyzer.py), the array routines of numerical.py and   *)
(* the pricing strategies of pricing.py.                                   *)
(*                                                                         *)
(* A table cell is a record [k, n, d, s]:                                  *)
(*   k = "empty"  a missing value (NaN / NaT)                              *)
(*   k = "text"   a string s (a sequence of one-character strings); in a   *)
(*                date or numeric column, text that does not parse         *)
(*   k = "num"    the number n/d (d > 0, lowest terms)                     *)
(*   k = "time"   the timestamp n                                          *)
(* Floating-point numbers are modelled as exact rationals.                 *)
(***************************************************************************)
EXTENDS Integers, Sequences, FiniteSets, TLC

\* ------------------------------------------------------------------ bounds

\* The most rows a trips.csv holds.
MaxRows == 2
\* The longest array handed to a routine of numerical.py, its largest element,
\* and the largest z-score threshold (in halves and in units).
MaxLen == 3
MaxVal == 2
MaxThr == 3

\* ------------------------------------------------------------------- cells

Empty == [k |-> "empty", n |-> 0, d |-> 1, s |-> <<>>]
Text(str) == [k |-> "text", n |-> 0, d |-> 1, s |-> str]
Time(t) == [k |-> "time", n |-> t, d |-> 1, s |-> <<>>]

RECURSIVE Gcd(_, _)
Gcd(a, b) == IF b = 0 THEN a ELSE Gcd(b, a % b)

Abs(x) == IF x < 0 THEN 0 - x ELSE x

\* The number n/d in lowest terms.
Num(n, d) ==
    LET g == Gcd(Abs(n), d)
    IN  [k |-> "num", n |-> n \div g, d |-> d \div g, s |-> <<>>]

IsNull(c) == c.k = "empty"

\* Text that parses neither as a date nor as a number.
Garbage == Text(<<"x">>)

\* The literal that fills a missing status.
UNKNOWN == <<"u", "n", "k", "n", "o", "w", "n">>

\* ------------------------------------------------------- pandas operations

\* A Series is the sequence of the cells of one column, in row order.

\* self.trips[col]
Col(rows, col) == [i \in 1..Len(rows) |-> rows[i][col]]

\* self.trips[col] = series
SetCol(rows, col, series) ==
    [i \in 1..Len(rows) |-> [rows[i] EXCEPT ![col] = series[i]]]

\* pd.to_datetime(series, errors="coerce"): a timestamp stays, anything else
\* becomes NaT.
to_datetime(series) ==
    [i \in 1..Len(series) |-> IF series[i].k = "time" THEN series[i] ELSE Empty]

\* pd.to_numeric(series, errors="coerce"): a number stays, anything else
\* becomes NaN.
to_numeric(series) ==
    [i \in 1..Len(series) |-> IF series[i].k = "num" THEN series[i] ELSE Empty]

\* Series.fillna(value). Filling with NaN leaves the cell missing.
fillna(series, value) ==
    [i \in 1..Len(series) |-> IF IsNull(series[i]) THEN value ELSE series[i]]

\* DataFrame.drop_duplicates(subset=["trip_id"]): a row is dropped when an
\* earlier row carries its trip_id (keep="first"); order is kept.
RECURSIVE DropSeen(_, _)
DropSeen(rows, seen) ==
    IF rows = <<>> THEN <<>>
    ELSE IF Head(rows).trip_id \in seen
         THEN DropSeen(Tail(rows), seen)
         ELSE <<Head(rows)>> \o DropSeen(Tail(rows), seen \cup {Head(rows).trip_id})

Reverse(rows) == [i \in 1..Len(rows) |-> rows[Len(rows) + 1 - i]]

\* keep="last" in place of the default keep="first"
drop_duplicates_keep_last(rows) == Reverse(DropSeen(Reverse(rows), {}))

drop_duplicates(rows) == DropSeen(rows, {})

\* Series.mean(): the mean of the non-missing values, NaN when there is none.
RECURSIVE SumNum(_), SumDen(_)
\* numerator and denominator of the sum of the non-missing cells
SumDen(series) ==
    IF series = <<>> THEN 1
    ELSE IF IsNull(Head(series)) THEN SumDen(Tail(series))
         ELSE Head(series).d * SumDen(Tail(series))
SumNum(series) ==
    IF series = <<>> THEN 0
    ELSE IF IsNull(Head(series)) THEN SumNum(Tail(series))
         ELSE Head(series).n * SumDen(Tail(series))
              + SumNum(Tail(series)) * Head(series).d

Count(series) == Cardinality({i \in 1..Len(series) : ~IsNull(series[i])})

mean(series) ==
    IF Count(series) = 0 THEN Empty
    ELSE Num(SumNum(series), SumDen(series) * Count(series))

\* end_time >= start_time on two datetime cells: a comparison with NaT is False.
TimeGe(e, s) == ~IsNull(e) /\ ~IsNull(s) /\ e.n >= s.n

\* str.swapcase() in place of str.lower()
LowerCharSwap(ch) == IF ch = "A" THEN "a" ELSE IF ch = "a" THEN "A" ELSE ch

\* str.lower() and str.strip() on one string.
LowerChar(ch) == IF ch = "A" THEN "a" ELSE ch
lower(str) == [i \in 1..Len(str) |-> LowerChar(str[i])]

IsSpace(ch) == ch = " "
RECURSIVE lstrip(_), rstrip(_)
lstrip(str) ==
    IF str # <<>> /\ IsSpace(Head(str)) THEN lstrip(Tail(str)) ELSE str
rstrip(str) ==
    IF str # <<>> /\ IsSpace(str[Len(str)])
    THEN rstrip(SubSeq(str, 1, Len(str) - 1)) ELSE str
strip(str) == rstrip(lstrip(str))

\* Series.str.lower() and Series.str.strip(): a missing value stays missing.
str_lower(series) ==
    [i \in 1..Len(series) |->
        IF series[i].k = "text" THEN Text(lower(series[i].s)) ELSE series[i]]
str_strip(series) ==
    [i \in 1..Len(series) |->
        IF series[i].k = "text" THEN Text(strip(series[i].s)) ELSE series[i]]

\* ---------------------------------------------------------- clean_data steps

\* Step 2: parse dates.
ParseDates(rows) ==
    LET r1 == SetCol(rows, "start_time", to_datetime(Col(rows, "start_time")))
    IN  SetCol(r1, "end_time", to_datetime(Col(r1, "end_time")))

\* Step 3: convert numeric columns.
ConvertNumeric(rows) ==
    LET r1 == SetCol(rows, "duration_minutes",
                     to_numeric(Col(rows, "duration_minutes")))
    IN  SetCol(r1, "distance_km", to_numeric(Col(r1, "distance_km")))

\* Step 4: handle missing values. Each mean is taken when its line runs.
FillMissing(rows) ==
    LET r1 == SetCol(rows, "status", fillna(Col(rows, "status"), Text(UNKNOWN)))
        r2 == SetCol(r1, "duration_minutes",
                     fillna(Col(r1, "duration_minutes"),
                            mean(Col(r1, "duration_minutes"))))
    IN  SetCol(r2, "distance_km",
               fillna(Col(r2, "distance_km"), mean(Col(r2, "distance_km"))))

\* end_time > start_time in place of end_time >= start_time
KeepRowStrict(r) == TimeGe(r.end_time, r.start_time) /\ r.end_time.n # r.start_time.n

\* Step 5: remove invalid entries.
KeepRow(r) == TimeGe(r.end_time, r.start_time)

RemoveInvalid(rows) == SelectSeq(rows, KeepRow)

\* Step 5 moved before step 4: the means are taken over the rows kept.
CleanRows_filter_first(rows) ==
    FillMissing(RemoveInvalid(ConvertNumeric(ParseDates(drop_duplicates(rows)))))

\* Steps 1 to 5, in the order of the code.
CleanRows(rows) ==
    RemoveInvalid(FillMissing(ConvertNumeric(ParseDates(drop_duplicates(rows)))))

\* Step 6, one line each.
NormalizeStatus(rows) ==
    SetCol(rows, "status", str_strip(str_lower(Col(rows, "status"))))
NormalizeUserType(rows) ==
    SetCol(rows, "user_type", str_strip(str_lower(Col(rows, "user_type"))))

\* ------------------------------------------------------------------- state

VARIABLES
    trips_csv,    \* content of data/trips.csv: the raw rows, in file order
    maintenance_csv, \* content of data/maintenance.csv
    trips,        \* self.trips: None, or a DataFrame
    stations,     \* self.stations
    maintenance,  \* self.maintenance
    files,        \* the cleaned files clean_data writes into data/
    last,         \* the method called last
    err,          \* the exception the last call raised, "none" when it returned
    num,          \* the last call of a routine of numerical.py or pricing.py
    result,       \* the last call of an analytics method and what it returned
    report        \* content of output/summary_report.txt

vars == <<trips_csv, maintenance_csv, trips, stations, maintenance, files,
          last, err, num, result, report>>
tables == <<trips_csv, maintenance_csv, trips, stations, maintenance, files,
            last, err, result, report>>

\* A DataFrame: its rows in order (each trips row carries idx, its index label)
\* and objcols, the categorical columns whose dtype is object (strings).
NoneDF == [isNone |-> TRUE, rows |-> <<>>, objcols |-> {}]
DataFrame(rows, objcols) == [isNone |-> FALSE, rows |-> rows, objcols |-> objcols]

NoFile == [exists |-> FALSE, rows |-> <<>>]
CsvFile(rows) == [exists |-> TRUE, rows |-> rows]

\* data/stations.csv, the same in every run.
stations_csv == <<[station_id |-> 1, station_name |-> "S1"]>>

\* A maintenance.csv of three records: A costs 10 and 5, B costs 7.
MaintenanceExample ==
    <<[bike_type |-> <<"A">>, cost |-> Num(10, 1)],
      [bike_type |-> <<"A">>, cost |-> Num(5, 1)],
      [bike_type |-> <<"B">>, cost |-> Num(7, 1)]>>

NoResult == [fn |-> "none", n |-> 0, value |-> <<>>]
NoReport == [exists |-> FALSE, sections |-> <<>>]

NoCall == [fn |-> "none"]

\* ------------------------------------------------------------------ inputs

\* The values a cell of trips.csv takes: two trip ids, two timestamps, the
\* numbers -1 .. 2, and the strings of one or two characters over an upper-case
\* letter and a blank (read_csv reads an empty field as a missing value, never
\* as an empty string).
TripIds == 1..2
Chars == {"A", " "}
Strings == [1..1 -> Chars] \cup [1..2 -> Chars]

TimeCells == {Empty, Garbage} \cup {Time(t) : t \in 1..2}
NumCells == {Empty, Garbage} \cup {Num(n, 1) : n \in (0 - 1)..2}
StrCells == {Empty} \cup {Text(str) : str \in Strings}

DefaultRow(id) ==
    [trip_id |-> id, user_id |-> 1, bike_type |-> <<"A">>,
     start_station_id |-> 1, end_station_id |-> 1,
     start_time |-> Time(1), end_time |-> Time(1),
     duration_minutes |-> Num(1, 1), distance_km |-> Num(1, 1),
     status |-> Text(<<"A">>), user_type |-> Text(<<"A">>)]

\* The rows of a trips.csv: every trip_id, in a row that differs from the
\* default row in at most one column, that column taking all its values.
RawRows ==
    UNION {
        {[DefaultRow(id) EXCEPT !.start_time = c] : c \in TimeCells}
        \cup {[DefaultRow(id) EXCEPT !.end_time = c] : c \in TimeCells}
        \cup {[DefaultRow(id) EXCEPT !.duration_minutes = c] : c \in NumCells}
        \cup {[DefaultRow(id) EXCEPT !.distance_km = c] : c \in NumCells}
        \cup {[DefaultRow(id) EXCEPT !.status = c] : c \in StrCells}
        \cup {[DefaultRow(id) EXCEPT !.user_type = c] : c \in StrCells}
        : id \in TripIds}

RawTables == UNION {[1..n -> RawRows] : n \in 0..MaxRows}

\* ------------------------------------------------------------------- actions

\* pd.read_csv: the rows in file order under a RangeIndex; a column of a file
\* with no rows, or holding at least one string, has dtype object, a column
\* that is empty in every row is float64 (all NaN).
InferObject(rows, col) ==
    Len(rows) = 0 \/ \E i \in 1..Len(rows) : rows[i][col].k = "text"

WithIndex(r, i) ==
    [idx |-> i, trip_id |-> r.trip_id, user_id |-> r.user_id,
     bike_type |-> r.bike_type, start_station_id |-> r.start_station_id,
     end_station_id |-> r.end_station_id, start_time |-> r.start_time,
     end_time |-> r.end_time, duration_minutes |-> r.duration_minutes,
     distance_km |-> r.distance_km, status |-> r.status, user_type |-> r.user_type]

WithoutIndex(r) ==
    [trip_id |-> r.trip_id, user_id |-> r.user_id,
     bike_type |-> r.bike_type, start_station_id |-> r.start_station_id,
     end_station_id |-> r.end_station_id, start_time |-> r.start_time,
     end_time |-> r.end_time, duration_minutes |-> r.duration_minutes,
     distance_km |-> r.distance_km, status |-> r.status, user_type |-> r.user_type]

read_csv(rows) ==
    DataFrame([i \in 1..Len(rows) |-> WithIndex(rows[i], i - 1)],
              {col \in {"status", "user_type"} : InferObject(rows, col)})

\* DataFrame.to_csv(path, index=False)
to_csv(df) == CsvFile([i \in 1..Len(df.rows) |-> WithoutIndex(df.rows[i])])

load_data ==
    /\ trips' = read_csv(trips_csv)
    /\ stations' = DataFrame(stations_csv, {})
    /\ maintenance' = DataFrame(maintenance_csv, {})
    /\ last' = "load_data"
    /\ err' = "none"
    /\ UNCHANGED <<trips_csv, maintenance_csv, files, num, result, report>>

\* The dtype of status after fillna("unknown"): filling a missing value of a
\* float64 column with a string makes the column object.
StatusObject(df, rows) ==
    "status" \in df.objcols
    \/ \E i \in 1..Len(rows) : IsNull(rows[i].status)

\* The .str accessor raises AttributeError on a column that is not object.
clean_data ==
    /\ last' = "clean_data"
    /\ UNCHANGED <<trips_csv, maintenance_csv, stations, maintenance, num,
                   result, report>>
    /\ IF trips.isNone
       THEN /\ err' = "RuntimeError"
            /\ UNCHANGED <<trips, files>>
       ELSE LET dedup == drop_duplicates(trips.rows)
                rows5 == CleanRows(trips.rows)
                cols == IF StatusObject(trips, dedup)
                        THEN trips.objcols \cup {"status"} ELSE trips.objcols
                rows6a == NormalizeStatus(rows5)
                rows6b == NormalizeUserType(rows6a)
            IN  IF "status" \notin cols
                THEN /\ trips' = DataFrame(rows5, cols)
                     /\ err' = "AttributeError"
                     /\ UNCHANGED files
                ELSE IF "user_type" \notin cols
                THEN /\ trips' = DataFrame(rows6a, cols)
                     /\ err' = "AttributeError"
                     /\ UNCHANGED files
                ELSE /\ trips' = DataFrame(rows6b, cols)
                     /\ err' = "none"
                     /\ files' = [trips_clean |-> to_csv(trips'),
                                  stations_clean |-> CsvFile(stations.rows),
                                  maintenance_clean |-> CsvFile(maintenance.rows)]

Init ==
    /\ trips_csv \in RawTables
    /\ maintenance_csv = MaintenanceExample
    /\ result = NoResult
    /\ report = NoReport
    /\ trips = NoneDF
    /\ stations = NoneDF
    /\ maintenance = NoneDF
    /\ files = [trips_clean |-> NoFile, stations_clean |-> NoFile,
                maintenance_clean |-> NoFile]
    /\ last = "init"
    /\ err = "none"
    /\ num = NoCall

Next == load_data \/ clean_data

Spec == Init /\ [][Next]_vars

\* --------------------------------------------------------------- analytics

\* A result Series is a sequence of [key, val] (index label, value) in the
\* order of the Series; a result DataFrame is a sequence of rows.

\* Character codes, for the order of strings.
Ord(ch) ==
    CASE ch = " " -> 32 [] ch = "A" -> 65 [] ch = "B" -> 66
      [] ch = "a" -> 97 [] ch = "b" -> 98 [] ch = "k" -> 107
      [] ch = "n" -> 110 [] ch = "o" -> 111 [] ch = "u" -> 117
      [] ch = "w" -> 119 [] ch = "x" -> 120

RECURSIVE StrLess(_, _)
StrLess(a, b) ==
    IF b = <<>> THEN FALSE
    ELSE IF a = <<>> THEN TRUE
    ELSE IF Head(a) = Head(b) THEN StrLess(Tail(a), Tail(b))
    ELSE Ord(Head(a)) < Ord(Head(b))

PairLess(a, b) == a[1] < b[1] \/ (a[1] = b[1] /\ a[2] < b[2])

\* The elements of a set of integers, of pairs of integers and of strings, in
\* ascending order.
RECURSIVE SortInts(_), SortPairs(_), SortStrs(_)
SortInts(S) ==
    IF S = {} THEN <<>>
    ELSE LET m == CHOOSE x \in S : \A y \in S : x <= y
         IN  <<m>> \o SortInts(S \ {m})
SortPairs(S) ==
    IF S = {} THEN <<>>
    ELSE LET m == CHOOSE x \in S : \A y \in S : x = y \/ PairLess(x, y)
         IN  <<m>> \o SortPairs(S \ {m})
SortStrs(S) ==
    IF S = {} THEN <<>>
    ELSE LET m == CHOOSE x \in S : \A y \in S : x = y \/ StrLess(x, y)
         IN  <<m>> \o SortStrs(S \ {m})

\* The values of a sequence.
Range(seq) == {seq[i] : i \in 1..Len(seq)}

\* How many cells of the series hold key.
Occurrences(series, key) == Cardinality({i \in 1..Len(series) : series[i] = key})

\* The orders of the numbers 1 .. n.
Orders(n) ==
    {p \in [1..n -> 1..n] : \A i, j \in 1..n : i # j => p[i] # p[j]}

\* a >= b on two numeric cells, a missing value counting as the smallest
\* (sort_values puts NaN last).
CellGe(a, b) == IsNull(b) \/ (~IsNull(a) /\ a.n * b.d >= b.n * a.d)

\* ascending=True in place of ascending=False
sort_values_asc(rows, col) ==
    {[i \in 1..Len(rows) |-> rows[p[i]]] :
        p \in {q \in Orders(Len(rows)) :
                  \A i \in 1..(Len(rows) - 1) : rows[q[i]][col] <= rows[q[i + 1]][col]}}

\* DataFrame.sort_values(col, ascending=False) on a column of integers. The
\* default sort is not stable: rows with equal values come in any order, so
\* the result is one of a set of orders.
sort_values(rows, col) ==
    {[i \in 1..Len(rows) |-> rows[p[i]]] :
        p \in {q \in Orders(Len(rows)) :
                  \A i \in 1..(Len(rows) - 1) : rows[q[i]][col] >= rows[q[i + 1]][col]}}

\* The same on a column of numeric cells.
sort_values_cells(rows, col) ==
    {[i \in 1..Len(rows) |-> rows[p[i]]] :
        p \in {q \in Orders(Len(rows)) :
                  \A i \in 1..(Len(rows) - 1) :
                      CellGe(rows[q[i]][col], rows[q[i + 1]][col])}}

\* DataFrame.head(n), n >= 0.
head(rows, n) == SubSeq(rows, 1, IF n < Len(rows) THEN n ELSE Len(rows))

\* Series.dropna(): the cells that are not missing, in order.
RECURSIVE dropna(_)
dropna(series) ==
    IF series = <<>> THEN <<>>
    ELSE IF IsNull(Head(series)) THEN dropna(Tail(series))
         ELSE <<Head(series)>> \o dropna(Tail(series))

\* Series.value_counts() on a series without missing values: one entry per
\* distinct value with the number of its occurrences, in descending order of
\* that number.
value_counts(series) ==
    LET keys == Range(series)
        pick == CHOOSE f \in [1..Cardinality(keys) -> keys] :
                    \A a, b \in DOMAIN f : a # b => f[a] # f[b]
    IN  sort_values([i \in 1..Cardinality(keys) |->
                        [key |-> pick[i], val |-> Occurrences(series, pick[i])]],
                    "val")

\* Series.sort_index() on integer labels.
sort_index(series) ==
    LET keys == SortInts({series[i].key : i \in 1..Len(series)})
    IN  [i \in 1..Len(keys) |-> CHOOSE e \in Range(series) : e.key = keys[i]]

\* groupby(key).size(): one entry per distinct key, in ascending key order
\* (keys is the sorted sequence of the distinct keys).
group_size(series, keys) ==
    [i \in 1..Len(keys) |-> [key |-> keys[i], val |-> Occurrences(series, keys[i])]]

\* Series.sum(): the sum of the non-missing values, 0 when there is none.
RECURSIVE series_sum(_)
series_sum(series) ==
    IF series = <<>> THEN Num(0, 1)
    ELSE IF IsNull(Head(series)) THEN series_sum(Tail(series))
         ELSE LET h == Head(series)
                  t == series_sum(Tail(series))
              IN  Num(h.n * t.d + t.n * h.d, h.d * t.d)

\* round(x, 2): the nearest multiple of 1/100, a tie going to the even one;
\* NaN stays NaN.
round2(c) ==
    IF IsNull(c) THEN c
    ELSE LET q == (100 * c.n) \div c.d
             r == 100 * c.n - q * c.d
         IN  IF 2 * r < c.d THEN Num(q, 100)
             ELSE IF 2 * r > c.d THEN Num(q + 1, 100)
             ELSE IF q % 2 = 0 THEN Num(q, 100) ELSE Num(q + 1, 100)

\* The cells of values in the rows whose key is k.
OfGroup(keys, values, k) ==
    LET at == SortInts({i \in 1..Len(keys) : keys[i] = k})
    IN  [j \in 1..Len(at) |-> values[at[j]]]

\* Timestamps count hours from Monday 2024-01-01 00:00.
DayNames ==
    <<"Monday", "Tuesday", "Wednesday", "Thursday", "Friday", "Saturday", "Sunday">>

\* Series.dt.hour, Series.dt.day_name() and Series.dt.to_period("M") (the
\* month as the number yyyymm, for the first quarter of 2024).
dt_hour(series) == [i \in 1..Len(series) |-> series[i].n % 24]
dt_day_name(series) ==
    [i \in 1..Len(series) |-> DayNames[((series[i].n \div 24) % 7) + 1]]
dt_to_period(series) ==
    [i \in 1..Len(series) |->
        IF series[i].n < 744 THEN 202401
        ELSE IF series[i].n < 1440 THEN 202402 ELSE 202403]

\* df[col] = series on a DataFrame that has no column col yet.
AddCol(rows, col, series) ==
    [i \in 1..Len(rows) |-> (col :> series[i]) @@ rows[i]]

\* -------------------------------------------------------- analytics methods

\* A call of an analytics method has a set of possible outcomes (one for each
\* order of tied rows). An outcome is [frame, raised, value]: frame is the
\* table held by self.trips (self.maintenance) when the method returns, value
\* is what it returns.
Outcome(frame, value) == [frame |-> frame, raised |-> "none", value |-> value]

\* sum(values) / len(values) in place of Series.mean(): fails on no rows
total_trips_summary_zero_division(self_trips) ==
    IF Len(self_trips.rows) = 0
    THEN {[frame |-> self_trips, raised |-> "ZeroDivisionError", value |-> <<>>]}
    ELSE {Outcome(self_trips,
                  [total_trips |-> Len(self_trips.rows),
                   total_distance_km |->
                       round2(series_sum(Col(self_trips.rows, "distance_km"))),
                   avg_duration_min |->
                       round2(mean(Col(self_trips.rows, "duration_minutes")))])}

total_trips_summary(self_trips) ==
    {Outcome(self_trips,
             [total_trips |-> Len(self_trips.rows),
              total_distance_km |->
                  round2(series_sum(Col(self_trips.rows, "distance_km"))),
              avg_duration_min |->
                  round2(mean(Col(self_trips.rows, "duration_minutes")))])}

\* df = self.trips in place of df = self.trips.copy(): the new column is
\* written into self.trips
peak_usage_hours_no_copy(self_trips) ==
    LET df == AddCol(self_trips.rows, "hour",
                     dt_hour(Col(self_trips.rows, "start_time")))
    IN  {Outcome(DataFrame(df, self_trips.objcols), sort_index(counts)) :
            counts \in value_counts(Col(df, "hour"))}

\* df is a copy: the new column is written into df, self.trips keeps its value.
peak_usage_hours(self_trips) ==
    LET df == AddCol(self_trips.rows, "hour",
                     dt_hour(Col(self_trips.rows, "start_time")))
    IN  {Outcome(self_trips, sort_index(counts)) :
            counts \in value_counts(Col(df, "hour"))}

busiest_day_of_week(self_trips) ==
    LET df == AddCol(self_trips.rows, "day_name",
                     dt_day_name(Col(self_trips.rows, "start_time")))
    IN  {Outcome(self_trips, counts) : counts \in value_counts(Col(df, "day_name"))}

\* groupby drops the rows whose key is missing; mean() is the mean of the
\* non-missing distances of a group.
avg_distance_by_user_type(self_trips) ==
    LET user_type == Col(self_trips.rows, "user_type")
        keys == SortStrs({c.s : c \in Range(dropna(user_type))})
    IN  {Outcome(self_trips,
                 [i \in 1..Len(keys) |->
                     [key |-> keys[i],
                      val |-> round2(mean(OfGroup(user_type,
                                                  Col(self_trips.rows, "distance_km"),
                                                  Text(keys[i]))))]])}

monthly_trip_trend(self_trips) ==
    LET df == AddCol(self_trips.rows, "year_month",
                     dt_to_period(Col(self_trips.rows, "start_time")))
    IN  {Outcome(self_trips, sort_index(counts)) :
            counts \in value_counts(Col(df, "year_month"))}

\* reset_index(name="trip_count") on the sizes of the user_id groups
UserCounts(rows) ==
    LET user_id == Col(rows, "user_id")
        counts == group_size(user_id, SortInts(Range(user_id)))
    IN  [i \in 1..Len(counts) |->
            [user_id |-> counts[i].key, trip_count |-> counts[i].val]]

top_active_users(self_trips, n) ==
    {Outcome(self_trips, head(sorted, n)) :
        sorted \in sort_values(UserCounts(self_trips.rows), "trip_count")}

\* groupby("bike_type")["cost"].sum() without .round(2)
maintenance_cost_by_bike_type_exact(self_maintenance) ==
    LET bike_type == Col(self_maintenance.rows, "bike_type")
        keys == SortStrs(Range(bike_type))
    IN  {Outcome(self_maintenance,
                 [i \in 1..Len(keys) |->
                     [key |-> keys[i],
                      val |-> series_sum(OfGroup(bike_type,
                                                 Col(self_maintenance.rows, "cost"),
                                                 keys[i]))]])}

maintenance_cost_by_bike_type(self_maintenance) ==
    LET bike_type == Col(self_maintenance.rows, "bike_type")
        keys == SortStrs(Range(bike_type))
    IN  {Outcome(self_maintenance,
                 [i \in 1..Len(keys) |->
                     [key |-> keys[i],
                      val |-> round2(series_sum(OfGroup(bike_type,
                                                        Col(self_maintenance.rows, "cost"),
                                                        keys[i])))]])}

\* reset_index(name="trip_count") on the sizes of the
\* (start_station_id, end_station_id) groups
RouteCounts(rows) ==
    LET route == [i \in 1..Len(rows) |->
                     <<rows[i].start_station_id, rows[i].end_station_id>>]
        counts == group_size(route, SortPairs(Range(route)))
    IN  [i \in 1..Len(counts) |->
            [start_station_id |-> counts[i].key[1],
             end_station_id |-> counts[i].key[2],
             trip_count |-> counts[i].val]]

top_routes(self_trips, n) ==
    {Outcome(self_trips, head(sorted, n)) :
        sorted \in sort_values(RouteCounts(self_trips.rows), "trip_count")}

user_type_distribution(self_trips) ==
    {Outcome(self_trips, counts) :
        counts \in value_counts(dropna(Col(self_trips.rows, "user_type")))}

status_distribution(self_trips) ==
    {Outcome(self_trips, counts) :
        counts \in value_counts(dropna(Col(self_trips.rows, "status")))}

\* self.trips[infos] (the rows without their index labels)
Infos(rows) ==
    [i \in 1..Len(rows) |->
        [user_id |-> rows[i].user_id,
         bike_type |-> rows[i].bike_type, start_time |-> rows[i].start_time,
         end_time |-> rows[i].end_time,
         duration_minutes |-> rows[i].duration_minutes,
         distance_km |-> rows[i].distance_km]]

longest_trips(self_trips, n) ==
    {Outcome(self_trips, head(sorted, n)) :
        sorted \in sort_values_cells(Infos(self_trips.rows), "duration_minutes")}

\* The lines of the report with the last two analytics sections first
Lines_longest_first(summary, hours, maint_cost, days, avg_dist, monthly, top_users, routes, by_user_type, by_status, longest) ==
    <<[title |-> "--- Overall Summary ---", body |-> summary],
      [title |-> "--- Peak Usage Hours (Trips per Hour) ---", body |-> hours],
      [title |-> "--- Maintenance Cost by Bike Type ---", body |-> maint_cost],
      [title |-> "--- Trips per Day of Week ---", body |-> days],
      [title |-> "--- Avg Distance by User Type (km) ---", body |-> avg_dist],
      [title |-> "--- Monthly Trip Trend ---", body |-> monthly],
      [title |-> "--- Top Active Users ---", body |-> top_users],
      [title |-> "--- Top Routes (Start -> End) ---", body |-> routes],
      [title |-> "--- Trips by User Type ---", body |-> by_user_type],
      [title |-> "--- Longest Trips ---", body |-> longest],
      [title |-> "--- Trips by Status ---", body |-> by_status]>>

\* The list lines of generate_summary_report after the three header lines:
\* one entry per section, its title line and the text appended under it.
Lines(summary, hours, maint_cost, days, avg_dist, monthly, top_users, routes, by_user_type, by_status, longest) ==
    <<[title |-> "--- Overall Summary ---", body |-> summary],
      [title |-> "--- Peak Usage Hours (Trips per Hour) ---", body |-> hours],
      [title |-> "--- Maintenance Cost by Bike Type ---", body |-> maint_cost],
      [title |-> "--- Trips per Day of Week ---", body |-> days],
      [title |-> "--- Avg Distance by User Type (km) ---", body |-> avg_dist],
      [title |-> "--- Monthly Trip Trend ---", body |-> monthly],
      [title |-> "--- Top Active Users ---", body |-> top_users],
      [title |-> "--- Top Routes (Start -> End) ---", body |-> routes],
      [title |-> "--- Trips by User Type ---", body |-> by_user_type],
      [title |-> "--- Trips by Status ---", body |-> by_status],
      [title |-> "--- Longest Trips ---", body |-> longest]>>

\* ---------------------------------------------------------- analytics steps

AnalyticsFns ==
    {"total_trips_summary", "peak_usage_hours", "busiest_day_of_week",
     "avg_distance_by_user_type", "monthly_trip_trend", "top_active_users",
     "maintenance_cost_by_bike_type", "top_routes", "user_type_distribution",
     "status_distribution", "longest_trips"}

\* main() runs the analytics and writes the report once clean_data has
\* returned.
Ready ==
    \/ last = "clean_data" /\ err = "none"
    \/ last \in AnalyticsFns
    \/ last = "generate_summary_report"

\* The n handed to top_active_users, top_routes and longest_trips.
Ns == 0..2

\* A method reading self.trips returns (or raises) with outcome o.
OnTrips(fn, n, o) ==
    /\ Ready
    /\ last' = fn
    /\ err' = o.raised
    /\ result' = [fn |-> fn, n |-> n, value |-> o.value]
    /\ trips' = o.frame
    /\ UNCHANGED <<trips_csv, maintenance_csv, stations, maintenance, files,
                   num, report>>

total_trips_summary_call ==
    \E o \in total_trips_summary(trips) : OnTrips("total_trips_summary", 0, o)

peak_usage_hours_call ==
    \E o \in peak_usage_hours(trips) : OnTrips("peak_usage_hours", 0, o)

busiest_day_of_week_call ==
    \E o \in busiest_day_of_week(trips) : OnTrips("busiest_day_of_week", 0, o)

avg_distance_by_user_type_call ==
    \E o \in avg_distance_by_user_type(trips) :
        OnTrips("avg_distance_by_user_type", 0, o)

monthly_trip_trend_call ==
    \E o \in monthly_trip_trend(trips) : OnTrips("monthly_trip_trend", 0, o)

top_active_users_call ==
    \E n \in Ns : \E o \in top_active_users(trips, n) :
        OnTrips("top_active_users", n, o)

maintenance_cost_by_bike_type_call ==
    \E o \in maintenance_cost_by_bike_type(maintenance) :
        /\ Ready
        /\ last' = "maintenance_cost_by_bike_type"
        /\ err' = o.raised
        /\ result' = [fn |-> "maintenance_cost_by_bike_type", n |-> 0,
                      value |-> o.value]
        /\ maintenance' = o.frame
        /\ UNCHANGED <<trips_csv, maintenance_csv, trips, stations, files,
                       num, report>>

top_routes_call ==
    \E n \in Ns : \E o \in top_routes(trips, n) : OnTrips("top_routes", n, o)

user_type_distribution_call ==
    \E o \in user_type_distribution(trips) :
        OnTrips("user_type_distribution", 0, o)

status_distribution_call ==
    \E o \in status_distribution(trips) : OnTrips("status_distribution", 0, o)

longest_trips_call ==
    \E n \in Ns : \E o \in longest_trips(trips, n) : OnTrips("longest_trips", n, o)

\* generate_summary_report: the methods run in the order of the code, each on
\* the tables the one before left; the file is written at the end, so a
\* method that raises leaves no file written by this call.
generate_summary_report ==
    /\ Ready
    /\ last' = "generate_summary_report"
    /\ \E o1 \in total_trips_summary(trips) :
       \E o2 \in peak_usage_hours(o1.frame) :
       \E o3 \in maintenance_cost_by_bike_type(maintenance) :
       \E o4 \in busiest_day_of_week(o2.frame) :
       \E o5 \in avg_distance_by_user_type(o4.frame) :
       \E o6 \in monthly_trip_trend(o5.frame) :
       \E o7 \in top_active_users(o6.frame, 15) :
       \E o8 \in top_routes(o7.frame, 10) :
       \E o9 \in user_type_distribution(o8.frame) :
       \E o10 \in status_distribution(o9.frame) :
       \E o11 \in longest_trips(o10.frame, 10) :
           LET raised == {o1.raised, o2.raised, o3.raised, o4.raised,
                          o5.raised, o6.raised, o7.raised, o8.raised,
                          o9.raised, o10.raised, o11.raised} \ {"none"}
           IN  /\ trips' = o11.frame
               /\ maintenance' = o3.frame
               /\ IF raised = {}
                  THEN /\ err' = "none"
                       /\ report' = [exists |-> TRUE,
                                     sections |->
                                         Lines(o1.value, o2.value, o3.value,
                                               o4.value, o5.value, o6.value,
                                               o7.value, o8.value, o9.value,
                                               o10.value, o11.value)]
                  ELSE /\ err' \in raised
                       /\ UNCHANGED report
    /\ UNCHANGED <<trips_csv, maintenance_csv, stations, files, num, result>>

\* The trips.csv files of the analytics runs: row i has trip_id i and is the
\* default row (user 1, from station 1 to station 1), a trip of user 2 that
\* is later (another hour, day and month) and twice as long, a trip from
\* station 2, a trip from station 1 to station 2, or a row whose start_time
\* does not parse.
MaxTrips == 3

AnalyticsRows ==
    {DefaultRow(1),
     [DefaultRow(1) EXCEPT !.user_id = 2, !.start_time = Time(770),
                           !.end_time = Time(770), !.duration_minutes = Num(2, 1)],
     [DefaultRow(1) EXCEPT !.start_station_id = 2],
     [DefaultRow(1) EXCEPT !.end_station_id = 2],
     [DefaultRow(1) EXCEPT !.start_time = Garbage]}

AnalyticsTables ==
    UNION {{[i \in 1..n |-> [f[i] EXCEPT !.trip_id = i]] :
               f \in [1..n -> AnalyticsRows]} : n \in 0..MaxTrips}

\* The maintenance.csv files: records of two bike types with a cost of 5, 7
\* or 0.004.
MaxRecords == 3

MaintenanceRows ==
    {[bike_type |-> b, cost |-> c] :
        b \in {<<"A">>, <<"B">>}, c \in {Num(5, 1), Num(7, 1), Num(4, 1000)}}

MaintenanceTables == UNION {[1..n -> MaintenanceRows] : n \in 0..MaxRecords}

InitAnalytics ==
    /\ \/ /\ trips_csv \in AnalyticsTables
          /\ maintenance_csv = MaintenanceExample
       \/ /\ trips_csv = <<>>
          /\ maintenance_csv \in MaintenanceTables
    /\ trips = NoneDF
    /\ stations = NoneDF
    /\ maintenance = NoneDF
    /\ files = [trips_clean |-> NoFile, stations_clean |-> NoFile,
                maintenance_clean |-> NoFile]
    /\ last = "init"
    /\ err = "none"
    /\ num = NoCall
    /\ result = NoResult
    /\ report = NoReport

NextAnalytics ==
    \/ load_data
    \/ clean_data
    \/ total_trips_summary_call
    \/ peak_usage_hours_call
    \/ busiest_day_of_week_call
    \/ avg_distance_by_user_type_call
    \/ monthly_trip_trend_call
    \/ top_active_users_call
    \/ maintenance_cost_by_bike_type_call
    \/ top_routes_call
    \/ user_type_distribution_call
    \/ status_distribution_call
    \/ longest_trips_call

SpecAnalytics == InitAnalytics /\ [][NextAnalytics]_vars

\* The runs that write the report.
NextReport ==
    \/ load_data
    \/ clean_data
    \/ generate_summary_report

SpecReport == InitAnalytics /\ [][NextReport]_vars

\* ------------------------------------------------------------ numerical.py

\* A 1-D ndarray is a sequence. Money is counted in hundredths (1.00 is 100,
\* 0.15 is 15), so that every fare is an integer.

\* NumPy broadcasting of two axes of lengths n and m: equal lengths, or one of
\* them 1 (stretched to the other); anything else raises ValueError.
Broadcastable(n, m) == n = m \/ n = 1 \/ m = 1
BroadcastLen(n, m) == IF n = 1 THEN m ELSE n
At(a, i) == IF Len(a) = 1 THEN a[1] ELSE a[i]

Returned(value) == [raised |-> "none", value |-> value]
Raised(exc) == [raised |-> exc, value |-> <<>>]

\* a + b on two 1-D arrays
ArrayAdd(a, b) ==
    IF Broadcastable(Len(a), Len(b))
    THEN Returned([i \in 1..BroadcastLen(Len(a), Len(b)) |-> At(a, i) + At(b, i)])
    ELSE Raised("ValueError")

\* fares = per_km * distances only
calculate_fares_no_duration(durations, distances, per_minute, per_km, unlock_fee) ==
    ArrayAdd([i \in 1..Len(durations) |-> unlock_fee],
             [i \in 1..Len(distances) |-> per_km * distances[i]])

\* fares = unlock_fee + per_minute * durations + per_km * distances
calculate_fares(durations, distances, per_minute, per_km, unlock_fee) ==
    ArrayAdd([i \in 1..Len(durations) |-> unlock_fee + per_minute * durations[i]],
             [i \in 1..Len(distances) |-> per_km * distances[i]])

RECURSIVE Sum(_)
Sum(a) == IF a = <<>> THEN 0 ELSE Head(a) + Sum(Tail(a))

\* z-scores in exact arithmetic, for n = len(values) and S = sum(values):
\*   mean = S / n                 values[i] - mean = Dev(values, i) / n
\*   std^2 = SumSqDev / n^3       z[i]^2 = n * Dev(values, i)^2 / SumSqDev
Dev(values, i) == Len(values) * values[i] - Sum(values)
SumSqDev(values) ==
    Sum([i \in 1..Len(values) |-> Dev(values, i) * Dev(values, i)])

\* np.std(values) == 0; the std of an empty array is NaN, which is not 0.
StdIsZero(values) == Len(values) > 0 /\ SumSqDev(values) = 0

\* np.abs(z[i]) > threshold, for the threshold p/q (q > 0): true for a negative
\* threshold, else decided on the squares.
AbsZGreater(values, i, threshold) ==
    \/ threshold.p < 0
    \/ Len(values) * Dev(values, i) * Dev(values, i) * threshold.q * threshold.q
           > threshold.p * threshold.p * SumSqDev(values)

\* np.abs(z) >= threshold in place of >
detect_outliers_zscore_ge(values, threshold) ==
    IF StdIsZero(values)
    THEN [i \in 1..Len(values) |-> FALSE]
    ELSE [i \in 1..Len(values) |->
             \/ threshold.p <= 0
             \/ Len(values) * Dev(values, i) * Dev(values, i)
                    * threshold.q * threshold.q
                    >= threshold.p * threshold.p * SumSqDev(values)]

detect_outliers_zscore(values, threshold) ==
    IF StdIsZero(values)
    THEN [i \in 1..Len(values) |-> FALSE]
    ELSE [i \in 1..Len(values) |-> AbsZGreater(values, i, threshold)]

\* np.sqrt(v) of an integer v >= 0, kept as its radicand: two square roots are
\* equal exactly when their radicands are, and sqrt(v) = 0 exactly when v = 0.
Sqrt(v) == [sqrt_of |-> v]

\* a[:, np.newaxis] - a[np.newaxis, :]: the (n, n) matrix of differences
PairwiseDiff(a) == [i \in 1..Len(a) |-> [j \in 1..Len(a) |-> a[i] - a[j]]]

\* lon_diff taken between a longitude and a latitude
station_distance_matrix_mixed(latitudes, longitudes) ==
    LET lat_diff == PairwiseDiff(latitudes)
        n == Len(latitudes)
        m == Len(longitudes)
        size == BroadcastLen(n, m)
    IN  IF Broadcastable(n, m)
        THEN Returned([i \in 1..size |-> [j \in 1..size |->
                 Sqrt(At(At(lat_diff, i), j) * At(At(lat_diff, i), j)
                      + (At(longitudes, i) - At(latitudes, j))
                        * (At(longitudes, i) - At(latitudes, j)))]])
        ELSE Raised("ValueError")

\* np.sqrt(lat_diff**2 + lon_diff**2); the sum broadcasts the two matrices.
station_distance_matrix(latitudes, longitudes) ==
    LET lat_diff == PairwiseDiff(latitudes)
        lon_diff == PairwiseDiff(longitudes)
        n == Len(latitudes)
        m == Len(longitudes)
        size == BroadcastLen(n, m)
    IN  IF Broadcastable(n, m)
        THEN Returned([i \in 1..size |-> [j \in 1..size |->
                 Sqrt(At(At(lat_diff, i), j) * At(At(lat_diff, i), j)
                      + At(At(lon_diff, i), j) * At(At(lon_diff, i), j))]])
        ELSE Raised("ValueError")

\* --------------------------------------------------------------- pricing.py

CasualPricing_UNLOCK_FEE == 100
CasualPricing_PER_MINUTE == 15
CasualPricing_PER_KM == 10
MemberPricing_PER_MINUTE == 8
MemberPricing_PER_KM == 5

CasualPricing_calculate_cost(duration_minutes, distance_km) ==
    CasualPricing_UNLOCK_FEE
    + CasualPricing_PER_MINUTE * duration_minutes
    + CasualPricing_PER_KM * distance_km

MemberPricing_calculate_cost(duration_minutes, distance_km) ==
    MemberPricing_PER_MINUTE * duration_minutes
    + MemberPricing_PER_KM * distance_km

\* ------------------------------------------------- calls of the routines

Arrays == UNION {[1..n -> 0..MaxVal] : n \in 0..MaxLen}

\* (per_minute, per_km, unlock_fee): the rates of the two strategies, and
\* other rates; the last one leaves unlock_fee at its default 0.
Rates ==
    {<<CasualPricing_PER_MINUTE, CasualPricing_PER_KM, CasualPricing_UNLOCK_FEE>>,
     <<MemberPricing_PER_MINUTE, MemberPricing_PER_KM, 0>>,
     <<1, 3, 7>>}

\* Thresholds p/q, in units and in halves, one of them negative.
Thresholds == {[p |-> p, q |-> q] : p \in (0 - 1)..MaxThr, q \in 1..2}

\* A call that has not been evaluated yet.
Pending == [raised |-> "pending", value |-> <<>>]

\* The calls to make: the routine and its arguments.
FaresCall(durations, distances, r) ==
    [fn |-> "calculate_fares", durations |-> durations, distances |-> distances,
     per_minute |-> r[1], per_km |-> r[2], unlock_fee |-> r[3], out |-> Pending]
ZScoreCall(values, threshold) ==
    [fn |-> "detect_outliers_zscore", values |-> values,
     threshold |-> threshold, out |-> Pending]
DistanceCall(latitudes, longitudes) ==
    [fn |-> "station_distance_matrix", latitudes |-> latitudes,
     longitudes |-> longitudes, out |-> Pending]

calculate_fares_call ==
    /\ num.fn = "calculate_fares"
    /\ num.out = Pending
    /\ num' = [num EXCEPT !.out =
                   calculate_fares(num.durations, num.distances,
                                   num.per_minute, num.per_km, num.unlock_fee)]
    /\ UNCHANGED tables

detect_outliers_zscore_call ==
    /\ num.fn = "detect_outliers_zscore"
    /\ num.out = Pending
    /\ num' = [num EXCEPT !.out =
                   Returned(detect_outliers_zscore(num.values, num.threshold))]
    /\ UNCHANGED tables

station_distance_matrix_call ==
    /\ num.fn = "station_distance_matrix"
    /\ num.out = Pending
    /\ num' = [num EXCEPT !.out =
                   station_distance_matrix(num.latitudes, num.longitudes)]
    /\ UNCHANGED tables

\* No table is loaded; one call of a routine is about to be made.
InitNum ==
    /\ trips_csv = <<>>
    /\ maintenance_csv = <<>>
    /\ result = NoResult
    /\ report = NoReport
    /\ trips = NoneDF
    /\ stations = NoneDF
    /\ maintenance = NoneDF
    /\ files = [trips_clean |-> NoFile, stations_clean |-> NoFile,
                maintenance_clean |-> NoFile]
    /\ last = "init"
    /\ err = "none"
    /\ \/ \E durations \in Arrays, distances \in Arrays, r \in Rates :
              num = FaresCall(durations, distances, r)
       \/ \E values \in Arrays, threshold \in Thresholds :
              num = ZScoreCall(values, threshold)
       \/ \E latitudes \in Arrays, longitudes \in Arrays :
              num = DistanceCall(latitudes, longitudes)

NextNum ==
    \/ calculate_fares_call
    \/ detect_outliers_zscore_call
    \/ station_distance_matrix_call

SpecNum == InitNum /\ [][NextNum]_vars

\* ------------------------------------------------------- claims: clean_data

\* clean_data has just returned normally: trips is the cleaned table.
Cleaned == last = "clean_data" /\ err = "none"

\* The row of trips.csv a row of the DataFrame comes from (by its index label).
RawOf(r) == trips_csv[r.idx + 1]

\* Row i of trips.csv is the first of the file with its trip_id.
FirstOccurrence(i) ==
    \A j \in 1..(i - 1) : trips_csv[j].trip_id # trips_csv[i].trip_id

\* Row i of trips.csv is a row of the DataFrame.
Retained(i) == \E k \in 1..Len(trips.rows) : trips.rows[k].idx = i - 1

\* C1: after clean_data no two rows of trips have the same trip_id, and every
\* row kept is the first row of the file with its trip_id, the rows staying in
\* file order.
C1_NoDuplicateKeepFirst ==
    Cleaned =>
        /\ \A i, j \in 1..Len(trips.rows) :
               i # j => trips.rows[i].trip_id # trips.rows[j].trip_id
        /\ \A i \in 1..Len(trips.rows) :
               /\ trips.rows[i].idx + 1 \in 1..Len(trips_csv)
               /\ RawOf(trips.rows[i]).trip_id = trips.rows[i].trip_id
               /\ FirstOccurrence(trips.rows[i].idx + 1)
        /\ \A i, j \in 1..Len(trips.rows) :
               i < j => trips.rows[i].idx < trips.rows[j].idx

\* A file with a repeated trip_id has been cleaned and the first row with that
\* trip_id is in the table.
C1_Witness ==
    /\ Cleaned
    /\ \E i, j \in 1..Len(trips_csv) :
           /\ i < j
           /\ trips_csv[i].trip_id = trips_csv[j].trip_id
           /\ Retained(i)

\* C2: after clean_data every row of trips has a parsed start_time and
\* end_time with end_time >= start_time; of the rows left by deduplication,
\* exactly those whose start_time and end_time both parse and satisfy
\* end_time >= start_time are kept (so end_time = start_time is kept, a value
\* that fails to parse or end_time < start_time drops the row).
C2_ValidTimesOnly ==
    Cleaned =>
        /\ \A i \in 1..Len(trips.rows) :
               /\ trips.rows[i].start_time.k = "time"
               /\ trips.rows[i].end_time.k = "time"
               /\ trips.rows[i].end_time.n >= trips.rows[i].start_time.n
        /\ \A i \in 1..Len(trips_csv) :
               FirstOccurrence(i) =>
                   (Retained(i) <=>
                        /\ trips_csv[i].start_time.k = "time"
                        /\ trips_csv[i].end_time.k = "time"
                        /\ trips_csv[i].end_time.n >= trips_csv[i].start_time.n)

\* A cleaned table that kept a row with end_time = start_time and dropped a
\* row with a timestamp that did not parse.
C2_Witness ==
    /\ Cleaned
    /\ \E i \in 1..Len(trips.rows) :
           trips.rows[i].end_time = trips.rows[i].start_time
    /\ \E i \in 1..Len(trips_csv) :
           /\ FirstOccurrence(i)
           /\ ~Retained(i)
           /\ (trips_csv[i].start_time.k # "time" \/ trips_csv[i].end_time.k # "time")

\* C3 (as claimed): after clean_data every row of trips has a duration_minutes
\* and a distance_km that are not missing, also when a column is missing or
\* unparseable in every row.
C3_NoMissingNumbers ==
    Cleaned =>
        \A i \in 1..Len(trips.rows) :
            /\ ~IsNull(trips.rows[i].duration_minutes)
            /\ ~IsNull(trips.rows[i].distance_km)

IsLowerCase(str) == \A i \in 1..Len(str) : str[i] # "A"
IsTrimmed(str) == str = <<>> \/ (~IsSpace(str[1]) /\ ~IsSpace(str[Len(str)]))
IsNormalized(c) == c.k = "text" /\ IsLowerCase(c.s) /\ IsTrimmed(c.s)

\* C4 (as claimed): after clean_data the status and the user_type of every row
\* of trips are strings, lower-case and without leading or trailing blanks,
\* and a row whose status was missing in the file has status "unknown".
C4_NormalizedCategoricals ==
    Cleaned =>
        \A i \in 1..Len(trips.rows) :
            /\ IsNormalized(trips.rows[i].status)
            /\ IsNormalized(trips.rows[i].user_type)
            /\ IsNull(RawOf(trips.rows[i]).status)
                   => trips.rows[i].status = Text(UNKNOWN)

\* C5 (as claimed): after clean_data every row of trips has
\* duration_minutes >= 0 and distance_km >= 0. Stated on the values that are
\* present, so that a violation is a negative number, not a missing one.
C5_NonNegativeNumbers ==
    Cleaned =>
        \A i \in 1..Len(trips.rows) :
            /\ ~IsNull(trips.rows[i].duration_minutes)
                   => trips.rows[i].duration_minutes.n >= 0
            /\ ~IsNull(trips.rows[i].distance_km)
                   => trips.rows[i].distance_km.n >= 0

\* C6 (as claimed): clean_data raises the usage-order error when no table is
\* loaded, and raises nothing once a table is loaded.
C6_OnlyUsageOrderError ==
    last = "clean_data" =>
        IF trips.isNone THEN err = "RuntimeError" ELSE err = "none"

\* The rows of trips.csv whose value of col enters the mean that fills col:
\* the first row of each trip_id, when its cell parses as a number.
Contributors(col) ==
    {i \in 1..Len(trips_csv) : FirstOccurrence(i) /\ trips_csv[i][col].k = "num"}

\* The sum of the numerators of col over the rows S of trips.csv (every number
\* of the file is an integer).
RECURSIVE RawSum(_, _)
RawSum(S, col) ==
    IF S = {} THEN 0
    ELSE LET i == CHOOSE x \in S : TRUE
         IN  trips_csv[i][col].n + RawSum(S \ {i}, col)

\* The cell c is the mean of col over Contributors(col), missing when there is
\* no contributor.
IsFillValue(c, col) ==
    IF Contributors(col) = {} THEN IsNull(c)
    ELSE /\ c.k = "num"
         /\ c.n * Cardinality(Contributors(col)) = RawSum(Contributors(col), col) * c.d

\* C15: after clean_data, a kept row whose duration_minutes (distance_km) was
\* missing or unparseable in the file holds the mean of that column over the
\* first row of every trip_id, whether or not the end_time >= start_time
\* filter kept that row; rows removed as duplicates do not enter the mean.
C15_FillMeanBeforeFilter ==
    Cleaned =>
        \A k \in 1..Len(trips.rows) :
            \A col \in {"duration_minutes", "distance_km"} :
                RawOf(trips.rows[k])[col].k # "num"
                    => IsFillValue(trips.rows[k][col], col)

\* A kept row had no duration in the file and was filled from a row that the
\* filter then dropped.
C15_Witness ==
    /\ Cleaned
    /\ \E k \in 1..Len(trips.rows) :
           /\ IsNull(RawOf(trips.rows[k]).duration_minutes)
           /\ trips.rows[k].duration_minutes.k = "num"
    /\ \E i \in Contributors("duration_minutes") : ~Retained(i)

\* C17: clean_data applied to a table that clean_data has just cleaned returns
\* normally and leaves the same rows, in the same order, with the same values.
C17_CleanIdempotent ==
    [][(Cleaned /\ last' = "clean_data")
           => (err' = "none" /\ trips'.rows = trips.rows)]_vars

\* A cleaned table with a row whose status the cleaning changed: the table a
\* second clean_data is applied to.
C17_Witness ==
    /\ Cleaned
    /\ \E k \in 1..Len(trips.rows) :
           /\ RawOf(trips.rows[k]).status.k = "text"
           /\ trips.rows[k].status # RawOf(trips.rows[k]).status

\* ------------------------------------------------------ claims: numerical.py

Evaluated(fn) == num.fn = fn /\ num.out # Pending

\* C7 (as claimed): calculate_fares on a durations array and a distances array
\* of different lengths raises the shape-mismatch error, whatever the two
\* lengths are.
C7_UnequalLengthsRaise ==
    (Evaluated("calculate_fares") /\ Len(num.durations) # Len(num.distances))
        => num.out.raised = "ValueError"

\* C8: on arrays of equal length calculate_fares returns an array of that
\* length whose element i is unlock_fee + per_minute * durations[i]
\* + per_km * distances[i]; with the rates 1.00, 0.15, 0.10 it is
\* CasualPricing.calculate_cost(durations[i], distances[i]) and with the rates
\* 0.08, 0.05 and no unlock fee MemberPricing.calculate_cost of the same.
C8_FaresAgreeWithStrategies ==
    (Evaluated("calculate_fares") /\ Len(num.durations) = Len(num.distances))
        => /\ num.out.raised = "none"
           /\ Len(num.out.value) = Len(num.durations)
           /\ \A i \in 1..Len(num.durations) :
                  /\ num.out.value[i] =
                         num.unlock_fee + num.per_minute * num.durations[i]
                         + num.per_km * num.distances[i]
                  /\ (num.per_minute = 15 /\ num.per_km = 10 /\ num.unlock_fee = 100)
                         => num.out.value[i] =
                                CasualPricing_calculate_cost(num.durations[i],
                                                             num.distances[i])
                  /\ (num.per_minute = 8 /\ num.per_km = 5 /\ num.unlock_fee = 0)
                         => num.out.value[i] =
                                MemberPricing_calculate_cost(num.durations[i],
                                                             num.distances[i])

\* calculate_fares has returned the fares of two or more trips of different
\* durations at CasualPricing's rates.
C8_Witness ==
    /\ Evaluated("calculate_fares")
    /\ num.out.raised = "none"
    /\ num.per_minute = 15 /\ num.per_km = 10 /\ num.unlock_fee = 100
    /\ Len(num.durations) = Len(num.distances)
    /\ Len(num.out.value) >= 2
    /\ \E i, j \in 1..Len(num.durations) :
           num.durations[i] # num.durations[j] /\ num.distances[i] > 0

\* With n = len(values), S = sum(values) and Q the sum of the squares:
\* n^2 * std^2 = n * Q - S^2 and n * (values[i] - mean) = n * values[i] - S.
SumOfSquares(values) == Sum([i \in 1..Len(values) |-> values[i] * values[i]])
VarianceN2(values) ==
    Len(values) * SumOfSquares(values) - Sum(values) * Sum(values)

C10_SymmetricZeroDiagonal ==
    (Evaluated("station_distance_matrix")
     /\ Len(num.latitudes) = Len(num.longitudes))
        => LET n == Len(num.latitudes)
               M == num.out.value
           IN  /\ num.out.raised = "none"
               /\ Len(M) = n
               /\ \A i \in 1..n : Len(M[i]) = n
               /\ \A i, j \in 1..n : M[i][j] = M[j][i]
               /\ \A i \in 1..n : M[i][i] = Sqrt(0)
               /\ \A i, j \in 1..n :
                      M[i][j].sqrt_of =
                          (num.latitudes[i] - num.latitudes[j])
                              * (num.latitudes[i] - num.latitudes[j])
                          + (num.longitudes[i] - num.longitudes[j])
                              * (num.longitudes[i] - num.longitudes[j])

\* station_distance_matrix has returned the matrix of three stations, two of
\* them apart in latitude and in longitude.
C10_Witness ==
    /\ Evaluated("station_distance_matrix")
    /\ num.out.raised = "none"
    /\ Len(num.latitudes) = 3
    /\ Len(num.longitudes) = 3
    /\ \E i, j \in 1..3 :
           /\ num.latitudes[i] # num.latitudes[j]
           /\ num.longitudes[i] # num.longitudes[j]
           /\ num.out.value[i][j] # Sqrt(0)

\* -------------------------------------------------------- claims: analytics

\* C11: once clean_data has returned, a call of any of the eleven analytics
\* methods, after any sequence of such calls, leaves the trips, stations and
\* maintenance tables as they were.
C11_AnalyticsLeaveTablesUnchanged ==
    [][last' \in AnalyticsFns
           => (trips' = trips /\ stations' = stations /\ maintenance' = maintenance)]_vars

\* peak_usage_hours, which adds a column to its working table, has returned on
\* a table of two rows or more.
C11_Witness ==
    /\ last = "peak_usage_hours"
    /\ err = "none"
    /\ Len(trips.rows) >= 2
    /\ Len(result.value) >= 1

\* The users and the routes of the cleaned trips table, and their trip counts.
Users == {trips.rows[i].user_id : i \in 1..Len(trips.rows)}
Routes ==
    {<<trips.rows[i].start_station_id, trips.rows[i].end_station_id>> :
        i \in 1..Len(trips.rows)}
TripsOfUser(u) ==
    Cardinality({i \in 1..Len(trips.rows) : trips.rows[i].user_id = u})
TripsOnRoute(r) ==
    Cardinality({i \in 1..Len(trips.rows) :
                    /\ trips.rows[i].start_station_id = r[1]
                    /\ trips.rows[i].end_station_id = r[2]})

\* C12: top_active_users(n) and top_routes(n) return at most n groups, no
\* group twice, each with its exact number of rows of the cleaned trips
\* table, in non-increasing order of that number, and no group left out has
\* strictly more trips than a group returned.
C12_TopNExactAndOrdered ==
    /\ (last = "top_active_users" /\ err = "none") =>
           LET v == result.value
           IN  /\ Len(v) <= result.n
               /\ \A i, j \in 1..Len(v) : i # j => v[i].user_id # v[j].user_id
               /\ \A i \in 1..Len(v) :
                      /\ v[i].user_id \in Users
                      /\ v[i].trip_count = TripsOfUser(v[i].user_id)
               /\ \A i \in 1..(Len(v) - 1) : v[i].trip_count >= v[i + 1].trip_count
               /\ \A u \in Users \ {v[i].user_id : i \in 1..Len(v)} :
                      \A i \in 1..Len(v) : TripsOfUser(u) <= v[i].trip_count
    /\ (last = "top_routes" /\ err = "none") =>
           LET v == result.value
               route(i) == <<v[i].start_station_id, v[i].end_station_id>>
           IN  /\ Len(v) <= result.n
               /\ \A i, j \in 1..Len(v) : i # j => route(i) # route(j)
               /\ \A i \in 1..Len(v) :
                      /\ route(i) \in Routes
                      /\ v[i].trip_count = TripsOnRoute(route(i))
               /\ \A i \in 1..(Len(v) - 1) : v[i].trip_count >= v[i + 1].trip_count
               /\ \A r \in Routes \ {route(i) : i \in 1..Len(v)} :
                      \A i \in 1..Len(v) : TripsOnRoute(r) <= v[i].trip_count

\* top_active_users(1) has returned the one user with the most trips and left
\* out a user with fewer.
C12_Witness ==
    /\ last = "top_active_users"
    /\ err = "none"
    /\ result.n = 1
    /\ Len(result.value) = 1
    /\ \E u \in Users : TripsOfUser(u) < result.value[1].trip_count

\* The bike types of the maintenance table and the total cost of each, in
\* thousandths (every cost of the table is a whole number of thousandths).
BikeTypes == {maintenance.rows[i].bike_type : i \in 1..Len(maintenance.rows)}

RECURSIVE CostOfRows(_)
CostOfRows(S) ==
    IF S = {} THEN 0
    ELSE LET i == CHOOSE x \in S : TRUE
             c == maintenance.rows[i].cost
         IN  (c.n * 1000) \div c.d + CostOfRows(S \ {i})

CostOfBikeType(b) ==
    CostOfRows({i \in 1..Len(maintenance.rows) : maintenance.rows[i].bike_type = b})

\* C13 (as amended): maintenance_cost_by_bike_type returns exactly one entry
\* per distinct bike_type of the maintenance table, in ascending bike_type
\* order, whose value is the sum of cost over the rows of that bike_type
\* rounded to 2 decimals: a whole number of hundredths at most 0.005 away from
\* the sum.
C13_RoundedSumPerBikeType ==
    (last = "maintenance_cost_by_bike_type" /\ err = "none") =>
        LET v == result.value
        IN  /\ {v[i].key : i \in 1..Len(v)} = BikeTypes
            /\ \A i, j \in 1..Len(v) : i < j => StrLess(v[i].key, v[j].key)
            /\ \A i \in 1..Len(v) :
                   /\ v[i].val.k = "num"
                   /\ (v[i].val.n * 100) % v[i].val.d = 0
                   /\ Abs(v[i].val.n * 1000 - CostOfBikeType(v[i].key) * v[i].val.d)
                          <= 5 * v[i].val.d

\* C13 (as stated): maintenance_cost_by_bike_type returns exactly one entry
\* per distinct bike_type, in ascending bike_type order, whose value is the
\* sum of cost over the rows of that bike_type.
C13_ExactSumPerBikeType ==
    (last = "maintenance_cost_by_bike_type" /\ err = "none") =>
        LET v == result.value
        IN  /\ {v[i].key : i \in 1..Len(v)} = BikeTypes
            /\ \A i, j \in 1..Len(v) : i < j => StrLess(v[i].key, v[j].key)
            /\ \A i \in 1..Len(v) :
                   /\ v[i].val.k = "num"
                   /\ v[i].val.n * 1000 = CostOfBikeType(v[i].key) * v[i].val.d

\* The method has returned on a table of two bike types, one of them with
\* several rows, and a total that is not a whole number of hundredths.
C13_Witness ==
    /\ last = "maintenance_cost_by_bike_type"
    /\ err = "none"
    /\ Cardinality(BikeTypes) = 2
    /\ Len(maintenance.rows) >= 3
    /\ \E b \in BikeTypes : CostOfBikeType(b) % 10 # 0

\* The table the analytics method fn reads has no rows.
ZeroRows(fn) ==
    IF fn = "maintenance_cost_by_bike_type"
    THEN Len(maintenance.rows) = 0
    ELSE Len(trips.rows) = 0

\* C14 (as amended): when the cleaned trips table (the maintenance table, for
\* maintenance_cost_by_bike_type) has no rows, every analytics method returns
\* without an error; total_trips_summary returns total_trips = 0,
\* total_distance_km = 0 and avg_duration_min = NaN, every other method
\* returns an empty aggregation.
C14_ZeroRowsNoError ==
    (last \in AnalyticsFns /\ ZeroRows(last)) =>
        /\ err = "none"
        /\ IF last = "total_trips_summary"
           THEN result.value = [total_trips |-> 0, total_distance_km |-> Num(0, 1),
                                avg_duration_min |-> Empty]
           ELSE DOMAIN result.value = {}

\* C14 (as stated): when the cleaned trips table (the maintenance table, for
\* maintenance_cost_by_bike_type) has no rows, every analytics method returns
\* an empty aggregation and signals no error.
C14_ZeroRowsEmptyAggregation ==
    (last \in AnalyticsFns /\ ZeroRows(last)) =>
        /\ err = "none"
        /\ DOMAIN result.value = {}

\* top_routes has returned on a cleaned table that lost every row of a file
\* that had rows.
C14_Witness ==
    /\ last = "top_routes"
    /\ err = "none"
    /\ Len(trips_csv) >= 1
    /\ Len(trips.rows) = 0

\* The titles of the sections, in the order of the claim.
SectionOrder ==
    <<"--- Overall Summary ---",
      "--- Peak Usage Hours (Trips per Hour) ---",
      "--- Maintenance Cost by Bike Type ---",
      "--- Trips per Day of Week ---",
      "--- Avg Distance by User Type (km) ---",
      "--- Monthly Trip Trend ---",
      "--- Top Active Users ---",
      "--- Top Routes (Start -> End) ---",
      "--- Trips by User Type ---",
      "--- Trips by Status ---",
      "--- Longest Trips ---">>

\* C16: the report written by generate_summary_report holds each of the
\* eleven sections exactly once, in the order Overall Summary, Peak Usage
\* Hours, Maintenance Cost by Bike Type, Trips per Day of Week, Avg Distance
\* by User Type, Monthly Trip Trend, Top Active Users, Top Routes, Trips by
\* User Type, Trips by Status, Longest Trips.
C16_ReportSectionOrder ==
    report.exists =>
        /\ \A k \in 1..Len(SectionOrder) :
               Cardinality({i \in 1..Len(report.sections) :
                               report.sections[i].title = SectionOrder[k]}) = 1
        /\ [i \in 1..Len(report.sections) |-> report.sections[i].title] = SectionOrder

\* A report has been written from a cleaned table of two rows or more.
C16_Witness ==
    /\ report.exists
    /\ last = "generate_summary_report"
    /\ err = "none"
    /\ Len(trips.rows) >= 2

====
